---- MODULE Spec2Model ----
(***************************************************************************)
(* Model of dropcode-cli (src/src/index.ts): the command-line action that  *)
(* resolves a snippet id, fetches the file metadata, derives a local       *)
(* filename, runs the interactive filename-conflict menu and downloads the *)
(* file.  Strings are TLA+ strings; the string functions of the program    *)
(* (includes, trim, URL parsing, extname, basename, template literals) are *)
(* computed character by character.                                        *)
(***************************************************************************)
EXTENDS Integers, Sequences, FiniteSets, TLC

(***************************************************************************)
(* Bounds of the model.                                                    *)
(***************************************************************************)
\* lines the user submits to the prompts in one run
MaxPrompts == 6
\* changes another process makes to the working directory during one run
MaxExternal == 1

Null == "<null>"

(***************************************************************************)
(* String helpers (String.prototype.includes / startsWith / trim / pop).   *)
(***************************************************************************)
Char(s, i) == SubSeq(s, i, i)

StartsWithAt(s, sub, i) ==
    /\ i + Len(sub) - 1 <= Len(s)
    /\ SubSeq(s, i, i + Len(sub) - 1) = sub

\* smallest index at which sub occurs in s, 0 when it does not occur
IndexOf(s, sub) ==
    LET hits == {i \in 1..Len(s) : StartsWithAt(s, sub, i)}
    IN  IF hits = {} THEN 0 ELSE CHOOSE i \in hits : \A j \in hits : i <= j

\* largest index at which sub occurs in s, 0 when it does not occur
LastIndexOf(s, sub) ==
    LET hits == {i \in 1..Len(s) : StartsWithAt(s, sub, i)}
    IN  IF hits = {} THEN 0 ELSE CHOOSE i \in hits : \A j \in hits : j <= i

Includes(s, sub) == IndexOf(s, sub) # 0

From(s, i) == IF i > Len(s) THEN "" ELSE SubSeq(s, i, Len(s))

RECURSIVE TrimStart(_)
TrimStart(s) == IF Len(s) > 0 /\ Char(s, 1) = " " THEN TrimStart(From(s, 2)) ELSE s

RECURSIVE TrimEnd(_)
TrimEnd(s) ==
    IF Len(s) > 0 /\ Char(s, Len(s)) = " " THEN TrimEnd(SubSeq(s, 1, Len(s) - 1)) ELSE s

Trim(s) == TrimEnd(TrimStart(s))

\* the part of s after its last "/" : s.split('/').pop()
LastSegment(s) == From(s, LastIndexOf(s, "/") + 1)

(***************************************************************************)
(* new URL(s): ok is FALSE when the constructor throws.  The model parses  *)
(* absolute URLs "scheme://authority/path?query#fragment" of the special   *)
(* schemes: the authority ends at the first "/", "?" or "#", the hostname  *)
(* is the authority after its last "@" and before its port, and an empty   *)
(* path is "/".  A string without "scheme://" has no base to resolve       *)
(* against and throws.                                                     *)
(***************************************************************************)
FirstOf(s, marks) ==
    LET hits == {i \in 1..Len(s) : Char(s, i) \in marks}
    IN  IF hits = {} THEN Len(s) + 1 ELSE CHOOSE i \in hits : \A j \in hits : i <= j

ParseURL(s) ==
    LET sep == IndexOf(s, "://") IN
    IF sep < 2
    THEN [ok |-> FALSE, hostname |-> "", pathname |-> ""]
    ELSE LET rest      == From(s, sep + 3)
             authEnd   == FirstOf(rest, {"/", "?", "#"})
             authority == SubSeq(rest, 1, authEnd - 1)
             hostport  == From(authority, LastIndexOf(authority, "@") + 1)
             host      == SubSeq(hostport, 1, FirstOf(hostport, {":"}) - 1)
             tail      == From(rest, authEnd)
             path      == SubSeq(tail, 1, FirstOf(tail, {"?", "#"}) - 1)
         IN  IF host = ""
             THEN [ok |-> FALSE, hostname |-> "", pathname |-> ""]
             ELSE [ok |-> TRUE, hostname |-> host,
                   pathname |-> IF path = "" THEN "/" ELSE path]

(***************************************************************************)
(* The allow-list and the Identifier Resolver.                             *)
(***************************************************************************)
SUPPORTED_DOMAINS ==
    <<"dropcode.tonary.app", "dc.tonary.app", "dropcode.lolkek.lol", "dc.lolkek.lol">>

\* variant: the host is matched with includes() instead of ===
MatchedDomain_Includes(hostname) ==
    LET hits == {i \in 1..Len(SUPPORTED_DOMAINS) : Includes(hostname, SUPPORTED_DOMAINS[i])}
    IN  IF hits = {} THEN Null
        ELSE SUPPORTED_DOMAINS[CHOOSE i \in hits : \A j \in hits : i <= j]

\* SUPPORTED_DOMAINS.find((domain) => hostname === domain)
MatchedDomain(hostname) ==
    LET hits == {i \in 1..Len(SUPPORTED_DOMAINS) : SUPPORTED_DOMAINS[i] = hostname}
    IN  IF hits = {} THEN Null
        ELSE SUPPORTED_DOMAINS[CHOOSE i \in hits : \A j \in hits : i <= j]

\* the null result of extractSnippetId
NoSnippet == [ok |-> FALSE, snippetId |-> "", baseUrl |-> ""]

\* variant: a bare identifier is paired with the second domain of the list
extractSnippetId_BareOtherDomain(in) ==
    IF ~Includes(in, "://") /\ ~Includes(in, "/")
    THEN [ok |-> TRUE, snippetId |-> in, baseUrl |-> "https://" \o SUPPORTED_DOMAINS[2]]
    ELSE LET urlObj == ParseURL(in) IN
         IF ~urlObj.ok THEN NoSnippet
         ELSE LET matchedDomain == MatchedDomain(urlObj.hostname)
                  pathname == urlObj.pathname
                  id == IF StartsWithAt(pathname, "/", 1) THEN From(pathname, 2)
                        ELSE pathname
              IN  IF matchedDomain = Null THEN NoSnippet
                  ELSE IF id = "" THEN NoSnippet
                  ELSE [ok |-> TRUE, snippetId |-> id,
                        baseUrl |-> "https://" \o matchedDomain]

\* the result is NoSnippet (null), or {snippetId, baseUrl} with ok set
extractSnippetId(in) ==
    IF ~Includes(in, "://") /\ ~Includes(in, "/")
    THEN [ok |-> TRUE, snippetId |-> in, baseUrl |-> "https://" \o SUPPORTED_DOMAINS[1]]
    ELSE LET urlObj == ParseURL(in) IN
         IF ~urlObj.ok THEN NoSnippet
         ELSE LET matchedDomain == MatchedDomain(urlObj.hostname)
                  pathname == urlObj.pathname
                  id == IF StartsWithAt(pathname, "/", 1) THEN From(pathname, 2)
                        ELSE pathname
              IN  IF matchedDomain = Null THEN NoSnippet
                  ELSE IF id = "" THEN NoSnippet
                  ELSE [ok |-> TRUE, snippetId |-> id,
                        baseUrl |-> "https://" \o matchedDomain]

\* `${baseUrl}/api/files/${snippetId}`
ApiUrl(base, id) == base \o "/api/files/" \o id

(***************************************************************************)
(* Filename Deriver.                                                       *)
(***************************************************************************)
getFilenameFromUrl(url, id) ==
    LET urlObj == ParseURL(url) IN
    IF ~urlObj.ok THEN "dropcode-" \o id
    ELSE LET last == LastSegment(urlObj.pathname)
         IN  IF last = "" THEN "dropcode-" \o id ELSE last

(***************************************************************************)
(* path.extname / path.basename (POSIX) and the numbered-name generator.   *)
(***************************************************************************)
RECURSIVE StripTrailingSlashes(_)
StripTrailingSlashes(p) ==
    IF Len(p) > 1 /\ Char(p, Len(p)) = "/"
    THEN StripTrailingSlashes(SubSeq(p, 1, Len(p) - 1)) ELSE p

BaseOf(p) == LastSegment(StripTrailingSlashes(p))

\* from the last "." of the last path component, "" when there is none or
\* when the only dots lead the component
extname(p) ==
    LET base == BaseOf(p)
        dot  == LastIndexOf(base, ".")
    IN  IF dot <= 1 \/ base = ".." THEN "" ELSE From(base, dot)

basename(p, ext) ==
    LET base == BaseOf(p)
        cut  == Len(base) - Len(ext)
    IN  IF ext # "" /\ cut > 0 /\ From(base, cut + 1) = ext
        THEN SubSeq(base, 1, cut) ELSE base

\* `${nameWithoutExt} (${counter})${ext}`
NumberedName(nameWithoutExt, counter, ext) ==
    nameWithoutExt \o " (" \o ToString(counter) \o ")" \o ext

\* the while loop: counter starts at 2 and is incremented while the candidate
\* exists in dir (the set of the names existing in the directory)
RECURSIVE NumberedFrom(_, _, _, _)
NumberedFrom(nameWithoutExt, ext, counter, dir) ==
    IF NumberedName(nameWithoutExt, counter, ext) \in dir
    THEN NumberedFrom(nameWithoutExt, ext, counter + 1, dir)
    ELSE NumberedName(nameWithoutExt, counter, ext)

\* variant: the while loop is missing, the first candidate is returned
generateNumberedFilename_NoLoop(originalFilename, dir) ==
    LET ext == extname(originalFilename)
        nameWithoutExt == basename(originalFilename, ext)
    IN  NumberedName(nameWithoutExt, 2, ext)

generateNumberedFilename(originalFilename, dir) ==
    LET ext == extname(originalFilename)
        nameWithoutExt == basename(originalFilename, ext)
    IN  NumberedFrom(nameWithoutExt, ext, 2, dir)


\* variant: the path tested is never there (the name is not joined to cwd())
fileExists_Never(name, dir) == FALSE

\* variant: existsSync(cwd()), the directory itself is tested
fileExists_Always(name, dir) == TRUE

\* fileExists(filename): existsSync(join(cwd(), filename))
fileExists(name, dir) == name \in dir

(***************************************************************************)
(* The values the environment supplies: the command-line argument, the     *)
(* names present in the working directory at start, the replies of the     *)
(* metadata endpoint, and the lines the user types at the prompts.         *)
(***************************************************************************)
Inputs ==
    { "abc123", "", "x@evil.example",
      "https://dc.lolkek.lol/abc123",
      "http://dropcode.tonary.app:8080/abc123?raw=1",
      "https://dropcode.tonary.app/", "https://dc.tonary.app",
      "https://evil.example/abc123", "https://evil.example/",
      "https://dropcode.tonary.app@evil.example/abc123",
      "https://dropcode.tonary.app.evil.example/abc123",
      "/abc123", "dc.tonary.app/abc123", "://abc123" }

InitialNames == {"App.tsx", "App (2).tsx", "App (3).tsx", "b.txt"}

\* names another process may create or delete while the program waits
ExternalNames == {"App (2).tsx", "new.txt"}

DownloadUrls ==
    { "https://dropcode.tonary.app/files/App.tsx",
      "https://cdn.example/f/App.tsx?sig=1",
      "https://cdn.example/",
      "/files/b.txt" }

\* body: "json" (an object), "null" (no object); hasFile: the object has a
\* file member; status 0: no response was received
MetaReplies ==
    { [kind |-> "error", status |-> 403, body |-> "", hasFile |-> FALSE, downloadUrl |-> ""],
      [kind |-> "error", status |-> 0, body |-> "", hasFile |-> FALSE, downloadUrl |-> ""],
      [kind |-> "ok", status |-> 200, body |-> "null", hasFile |-> FALSE, downloadUrl |-> ""],
      [kind |-> "ok", status |-> 200, body |-> "json", hasFile |-> FALSE, downloadUrl |-> ""],
      [kind |-> "ok", status |-> 200, body |-> "json", hasFile |-> TRUE, downloadUrl |-> ""] }
    \cup { [kind |-> "ok", status |-> 200, body |-> "json", hasFile |-> TRUE, downloadUrl |-> u] :
             u \in DownloadUrls }

Lines == {"1", "2 ", " 3", "4", "5", "", "  ", "b.txt", " App.tsx", "new.txt"}

(***************************************************************************)
(* State.                                                                  *)
(***************************************************************************)
VARIABLES
    pc,                \* start, fetching, menu, custom, downloading, writing, opening, exited
    input,             \* the <url-or-id> argument
    parsed,            \* result of extractSnippetId
    downloadUrl,       \* fileInfo.file.downloadUrl
    derived,           \* result of getFilenameFromUrl, and whether fileExists found it
    filename,          \* the name handed to downloadFile
    originalFilename,  \* parameter of the innermost handleFileNameConflict
    autoNumberedName,  \* its autoNumberedName
    firstAttemptName,  \* its firstAttemptName (Null: null)
    files,             \* names existing in the working directory
    requests,          \* HTTP requests issued, in order
    opened,            \* URLs handed to open(), in order
    openResult,        \* none, opened, failed
    exitCode,          \* -1 while the process runs
    outcome,           \* how the run ended (or is about to end)
    rlOpen,            \* readline interfaces created and not closed
    rlCreated,         \* readline interfaces created so far
    depth,             \* nested activations of handleFileNameConflict
    prompts,           \* lines submitted so far
    external,          \* changes made to the directory by other processes
    resolved,          \* how the filename was chosen, and whether its existence check found it absent
    autoAbsent,        \* autoNumberedName was absent when generateNumberedFilename returned it
    menuShown,         \* the conflict menu was printed
    lastLine,          \* the trimmed line the last step consumed (Null: the step read no line)
    lastFirst,         \* firstAttemptName as the last custom-filename step found it
    lastChecked,       \* the last step called existsSync
    fsTouched,         \* some step called existsSync or createWriteStream
    written            \* names downloadFile wrote to

vars ==
    << pc, input, parsed, downloadUrl, derived, filename, originalFilename, autoNumberedName,
       firstAttemptName, files, requests, opened, openResult, exitCode, outcome, rlOpen,
       rlCreated, depth, prompts, external, resolved, autoAbsent, menuShown, lastLine,
       lastFirst, lastChecked, fsTouched, written >>

session == <<originalFilename, autoNumberedName, autoAbsent, firstAttemptName, menuShown>>
handles == <<rlOpen, rlCreated, depth>>
browser == <<opened, openResult>>
ending == <<exitCode, outcome>>
target == <<filename, resolved>>

Init ==
    /\ pc = "start"
    /\ input \in Inputs
    /\ files \in SUBSET InitialNames
    /\ parsed = NoSnippet
    /\ downloadUrl = ""
    /\ derived = [name |-> Null, existed |-> FALSE]
    /\ filename = Null
    /\ originalFilename = Null
    /\ autoNumberedName = Null
    /\ firstAttemptName = Null
    /\ requests = <<>>
    /\ opened = <<>>
    /\ openResult = "none"
    /\ exitCode = -1
    /\ outcome = "running"
    /\ rlOpen = 0
    /\ rlCreated = 0
    /\ depth = 0
    /\ prompts = 0
    /\ external = 0
    /\ resolved = [via |-> "none", absent |-> FALSE]
    /\ autoAbsent = FALSE
    /\ menuShown = FALSE
    /\ lastLine = Null
    /\ lastFirst = Null
    /\ lastChecked = FALSE
    /\ fsTouched = FALSE
    /\ written = {}

(***************************************************************************)
(* Building blocks of the handlers.                                        *)
(***************************************************************************)
\* process.exit(code), or the action returning with nothing left to run
Exit(code, why) ==
    /\ pc' = "exited"
    /\ exitCode' = code
    /\ outcome' = why

\* filename = ...; downloadFile(downloadUrl, filename) up to its first await:
\* the GET of downloadUrl is issued
downloadFile(url, name, via, absent) ==
    /\ filename' = name
    /\ resolved' = [via |-> via, absent |-> absent]
    /\ requests' = Append(requests, [kind |-> "download", url |-> url])
    /\ pc' = "downloading"

\* variant: the catch block fetches the metadata again instead of giving up
openFallback_Retry(why) ==
    /\ requests' = Append(requests, [kind |-> "metadata",
                                      url |-> ApiUrl(parsed.baseUrl, parsed.snippetId)])
    /\ opened' = Append(opened, ApiUrl(parsed.baseUrl, parsed.snippetId))
    /\ outcome' = why
    /\ pc' = "opening"

\* variant: the snippet page `${baseUrl}/${snippetId}` is opened
openFallback_SnippetPage(why) ==
    /\ opened' = Append(opened, parsed.baseUrl \o "/" \o parsed.snippetId)
    /\ outcome' = why
    /\ pc' = "opening"
    /\ UNCHANGED requests

\* the catch block of the action for an axios error: open(apiUrl) is called
openFallback(why) ==
    /\ opened' = Append(opened, ApiUrl(parsed.baseUrl, parsed.snippetId))
    /\ outcome' = why
    /\ pc' = "opening"
    /\ UNCHANGED requests

\* variant: re-entry is a transition back to the menu of the one activation
handleFileNameConflict_Flat(name, rlBefore) ==
    /\ rlOpen' = rlBefore + 1
    /\ rlCreated' = rlCreated + 1
    /\ depth' = 1
    /\ originalFilename' = name
    /\ autoNumberedName' = generateNumberedFilename(name, files)
    /\ autoAbsent' = (generateNumberedFilename(name, files) \notin files)
    /\ firstAttemptName' = Null
    /\ menuShown' = TRUE
    /\ pc' = "menu"

\* variant: rl.close() is missing before the recursive call
handleFileNameConflict_Leak(name, rlBefore) ==
    /\ rlOpen' = rlOpen + 1
    /\ rlCreated' = rlCreated + 1
    /\ depth' = depth + 1
    /\ originalFilename' = name
    /\ autoNumberedName' = generateNumberedFilename(name, files)
    /\ autoAbsent' = (generateNumberedFilename(name, files) \notin files)
    /\ firstAttemptName' = Null
    /\ menuShown' = TRUE
    /\ pc' = "menu"

\* variant: the numbered name is computed once and kept across re-entries
handleFileNameConflict_Cached(name, rlBefore) ==
    /\ rlOpen' = rlBefore + 1
    /\ rlCreated' = rlCreated + 1
    /\ depth' = depth + 1
    /\ originalFilename' = name
    /\ autoNumberedName' = IF autoNumberedName = Null
                            THEN generateNumberedFilename(name, files)
                            ELSE autoNumberedName
    /\ autoAbsent' = (autoNumberedName' \notin files)
    /\ firstAttemptName' = Null
    /\ menuShown' = TRUE
    /\ pc' = "menu"

\* handleFileNameConflict(name) up to its first question: rlBefore is the
\* number of interfaces open when it is called
handleFileNameConflict(name, rlBefore) ==
    /\ rlOpen' = rlBefore + 1
    /\ rlCreated' = rlCreated + 1
    /\ depth' = depth + 1
    /\ originalFilename' = name
    /\ autoNumberedName' = generateNumberedFilename(name, files)
    /\ autoAbsent' = (generateNumberedFilename(name, files) \notin files)
    /\ firstAttemptName' = Null
    /\ menuShown' = TRUE
    /\ pc' = "menu"

\* fetchFileInfo(baseUrl, snippetId) up to its await: the metadata GET is issued
fetchFileInfo(base, id) ==
    /\ requests' = Append(requests, [kind |-> "metadata", url |-> ApiUrl(base, id)])
    /\ pc' = "fetching"

(***************************************************************************)
(* The steps of the program, one per stretch of code between two awaits.   *)
(***************************************************************************)
\* variant: a rejected input is sent to the browser fallback before exiting
Action_FallbackOnReject ==
    /\ pc = "start"
    /\ parsed' = extractSnippetId(input)
    /\ IF ~parsed'.ok
       THEN /\ Exit(1, "invalid")
            /\ opened' = Append(opened, input)
            /\ UNCHANGED <<requests, openResult>>
       ELSE /\ fetchFileInfo(parsed'.baseUrl, parsed'.snippetId)
            /\ UNCHANGED <<ending, browser>>
    /\ lastLine' = Null
    /\ lastFirst' = Null
    /\ lastChecked' = FALSE
    /\ UNCHANGED << input, downloadUrl, derived, files, handles, prompts, external,
                    session, target, fsTouched, written >>

\* the action callback from its start to the await of fetchFileInfo
Action ==
    /\ pc = "start"
    /\ parsed' = extractSnippetId(input)
    /\ IF ~parsed'.ok
       THEN /\ Exit(1, "invalid")
            /\ UNCHANGED requests
       ELSE /\ fetchFileInfo(parsed'.baseUrl, parsed'.snippetId)
            /\ UNCHANGED ending
    /\ lastLine' = Null
    /\ lastFirst' = Null
    /\ lastChecked' = FALSE
    /\ UNCHANGED << input, downloadUrl, derived, files, browser, handles, prompts, external,
                    session, target, fsTouched, written >>

\* the metadata GET settles: the rest of the try block up to the next await
\* (the first question of the conflict menu, or the download GET), or the
\* catch block up to the await of open()
MetadataSettled(reply) ==
    /\ pc = "fetching"
    /\ lastLine' = Null
    /\ lastFirst' = Null
    /\ UNCHANGED <<input, parsed, files, prompts, external, written, openResult>>
    /\ IF reply.kind = "error"
       THEN /\ openFallback("metafail")
            /\ lastChecked' = FALSE
            /\ UNCHANGED <<downloadUrl, derived, target, session, handles, exitCode, fsTouched>>
       ELSE IF reply.body = "null"
       THEN \* fileInfo.file throws a TypeError: the catch block's else branch
            /\ Exit(1, "badbody")
            /\ lastChecked' = FALSE
            /\ UNCHANGED << downloadUrl, derived, requests, target, session, handles, opened,
                            fsTouched >>
       ELSE IF ~reply.hasFile \/ reply.downloadUrl = ""
       THEN /\ Exit(1, "empty")
            /\ lastChecked' = FALSE
            /\ UNCHANGED << downloadUrl, derived, requests, target, session, handles, opened,
                            fsTouched >>
       ELSE LET name == getFilenameFromUrl(reply.downloadUrl, parsed.snippetId) IN
            /\ downloadUrl' = reply.downloadUrl
            /\ derived' = [name |-> name, existed |-> name \in files]
            /\ lastChecked' = TRUE
            /\ fsTouched' = TRUE
            /\ UNCHANGED <<ending, opened>>
            /\ IF fileExists(name, files)
               THEN /\ handleFileNameConflict(name, rlOpen)
                    /\ UNCHANGED <<requests, target>>
               ELSE /\ downloadFile(reply.downloadUrl, name, "derived", name \notin files)
                    /\ UNCHANGED <<session, handles>>

\* variant: case '1' has no return and falls through to case '2'
returnFilename_Fallthrough(name, via, absent) ==
    /\ rlOpen' = rlOpen - 1
    /\ depth' = 0
    /\ UNCHANGED rlCreated
    /\ downloadFile(downloadUrl, autoNumberedName, via, absent)
    /\ UNCHANGED <<session, ending>>

\* rl.close(); return <name>; and the caller up to the await in downloadFile
returnFilename(name, via, absent) ==
    /\ rlOpen' = rlOpen - 1
    /\ depth' = 0
    /\ UNCHANGED rlCreated
    /\ downloadFile(downloadUrl, name, via, absent)
    /\ UNCHANGED <<session, ending>>

\* variant: the default case opens the custom-filename prompt
MenuAnswer_DefaultIsCustom(line) ==
    /\ pc = "menu"
    /\ prompts < MaxPrompts
    /\ prompts' = prompts + 1
    /\ lastLine' = Trim(line)
    /\ lastFirst' = Null
    /\ lastChecked' = FALSE
    /\ UNCHANGED << input, parsed, downloadUrl, derived, files, browser, external,
                    fsTouched, written >>
    /\ LET choice == Trim(line) IN
       CASE choice = "1" -> returnFilename(originalFilename, "replace", FALSE)
         [] choice = "2" -> returnFilename(autoNumberedName, "auto", autoAbsent)
         [] choice = "4" ->
              /\ rlOpen' = rlOpen - 1
              /\ depth' = 0
              /\ UNCHANGED rlCreated
              /\ resolved' = [via |-> "cancel", absent |-> FALSE]
              /\ Exit(0, "cancel")
              /\ UNCHANGED <<session, requests, filename>>
         [] OTHER ->
              /\ firstAttemptName' = Null
              /\ pc' = "custom"
              /\ UNCHANGED << originalFilename, autoNumberedName, autoAbsent, menuShown,
                              handles, requests, target, ending >>

\* the user answers the menu prompt: the switch on the trimmed answer
MenuAnswer(line) ==
    /\ pc = "menu"
    /\ prompts < MaxPrompts
    /\ prompts' = prompts + 1
    /\ lastLine' = Trim(line)
    /\ lastFirst' = Null
    /\ lastChecked' = FALSE
    /\ UNCHANGED << input, parsed, downloadUrl, derived, files, browser, external,
                    fsTouched, written >>
    /\ LET choice == Trim(line) IN
       CASE choice = "1" -> returnFilename(originalFilename, "replace", FALSE)
         [] choice = "2" -> returnFilename(autoNumberedName, "auto", autoAbsent)
         [] choice = "3" ->
              /\ firstAttemptName' = Null
              /\ pc' = "custom"
              /\ UNCHANGED << originalFilename, autoNumberedName, autoAbsent, menuShown,
                              handles, requests, target, ending >>
         [] choice = "4" ->
              /\ rlOpen' = rlOpen - 1
              /\ depth' = 0
              /\ UNCHANGED rlCreated
              /\ resolved' = [via |-> "cancel", absent |-> FALSE]
              /\ Exit(0, "cancel")
              /\ UNCHANGED <<session, requests, filename>>
         [] OTHER ->
              UNCHANGED <<pc, session, handles, requests, target, ending>>

\* variant: an empty custom name always goes back to the menu
CustomAnswer_EmptyGoesBack(line) ==
    /\ pc = "custom"
    /\ prompts < MaxPrompts
    /\ prompts' = prompts + 1
    /\ lastLine' = Trim(line)
    /\ lastFirst' = firstAttemptName
    /\ UNCHANGED <<input, parsed, downloadUrl, derived, files, browser, external, written>>
    /\ LET trimmedName == Trim(line) IN
       IF trimmedName = ""
       THEN /\ lastChecked' = FALSE
            /\ pc' = "menu"
            /\ firstAttemptName' = Null
            /\ UNCHANGED << originalFilename, autoNumberedName, autoAbsent, menuShown,
                            handles, requests, target, ending, fsTouched >>
       ELSE /\ lastChecked' = TRUE
            /\ fsTouched' = TRUE
            /\ IF fileExists(trimmedName, files)
               THEN IF firstAttemptName # Null /\ trimmedName = firstAttemptName
                    THEN /\ handleFileNameConflict(trimmedName, rlOpen - 1)
                         /\ UNCHANGED <<requests, target, ending>>
                    ELSE /\ firstAttemptName' = trimmedName
                         /\ UNCHANGED << pc, originalFilename, autoNumberedName, autoAbsent,
                                         menuShown, handles, requests, target, ending >>
               ELSE returnFilename(trimmedName, "custom", trimmedName \notin files)

\* variant: only the first rejected name is remembered
CustomAnswer_KeepFirst(line) ==
    /\ pc = "custom"
    /\ prompts < MaxPrompts
    /\ prompts' = prompts + 1
    /\ lastLine' = Trim(line)
    /\ lastFirst' = firstAttemptName
    /\ UNCHANGED <<input, parsed, downloadUrl, derived, files, browser, external, written>>
    /\ LET trimmedName == Trim(line) IN
       IF trimmedName = ""
       THEN /\ lastChecked' = FALSE
            /\ IF firstAttemptName = Null
               THEN UNCHANGED pc
               ELSE pc' = "menu"
            /\ firstAttemptName' = Null
            /\ UNCHANGED << originalFilename, autoNumberedName, autoAbsent, menuShown,
                            handles, requests, target, ending, fsTouched >>
       ELSE /\ lastChecked' = TRUE
            /\ fsTouched' = TRUE
            /\ IF fileExists(trimmedName, files)
               THEN IF firstAttemptName # Null /\ trimmedName = firstAttemptName
                    THEN /\ handleFileNameConflict(trimmedName, rlOpen - 1)
                         /\ UNCHANGED <<requests, target, ending>>
                    ELSE /\ firstAttemptName' = IF firstAttemptName = Null THEN trimmedName
                                                ELSE firstAttemptName
                         /\ UNCHANGED << pc, originalFilename, autoNumberedName, autoAbsent,
                                         menuShown, handles, requests, target, ending >>
               ELSE returnFilename(trimmedName, "custom", trimmedName \notin files)

\* the user answers the custom-filename prompt
CustomAnswer(line) ==
    /\ pc = "custom"
    /\ prompts < MaxPrompts
    /\ prompts' = prompts + 1
    /\ lastLine' = Trim(line)
    /\ lastFirst' = firstAttemptName
    /\ UNCHANGED <<input, parsed, downloadUrl, derived, files, browser, external, written>>
    /\ LET trimmedName == Trim(line) IN
       IF trimmedName = ""
       THEN /\ lastChecked' = FALSE
            /\ IF firstAttemptName = Null
               THEN UNCHANGED pc
               ELSE pc' = "menu"
            /\ firstAttemptName' = Null
            /\ UNCHANGED << originalFilename, autoNumberedName, autoAbsent, menuShown,
                            handles, requests, target, ending, fsTouched >>
       ELSE /\ lastChecked' = TRUE
            /\ fsTouched' = TRUE
            /\ IF fileExists(trimmedName, files)
               THEN IF firstAttemptName # Null /\ trimmedName = firstAttemptName
                    THEN \* rl.close(); return await handleFileNameConflict(trimmedName)
                         /\ handleFileNameConflict(trimmedName, rlOpen - 1)
                         /\ UNCHANGED <<requests, target, ending>>
                    ELSE /\ firstAttemptName' = trimmedName
                         /\ UNCHANGED << pc, originalFilename, autoNumberedName, autoAbsent,
                                         menuShown, handles, requests, target, ending >>
               ELSE returnFilename(trimmedName, "custom", trimmedName \notin files)

\* the download GET settles: axios rejects, or the response stream is piped
\* into createWriteStream(filePath)
DownloadResponse(result) ==
    /\ pc = "downloading"
    /\ lastLine' = Null
    /\ lastFirst' = Null
    /\ lastChecked' = FALSE
    /\ UNCHANGED << input, parsed, downloadUrl, derived, files, openResult, handles,
                    prompts, external, session, target, written, exitCode >>
    /\ IF result = "reject"
       THEN /\ openFallback("dlreqfail")
            /\ UNCHANGED fsTouched
       ELSE /\ pc' = "writing"
            /\ fsTouched' = TRUE
            /\ UNCHANGED <<requests, opened, outcome>>

\* the writer emits finish or error; created: the file was created or
\* truncated before the error
WriteSettled(result, created) ==
    /\ pc = "writing"
    /\ lastLine' = Null
    /\ lastFirst' = Null
    /\ lastChecked' = FALSE
    /\ UNCHANGED << input, parsed, downloadUrl, derived, requests, browser, handles,
                    prompts, external, session, target, fsTouched >>
    /\ IF result = "finish"
       THEN /\ created
            /\ files' = files \cup {filename}
            /\ written' = written \cup {filename}
            /\ Exit(0, "done")
       ELSE /\ files' = IF created THEN files \cup {filename} ELSE files
            /\ written' = IF created THEN written \cup {filename} ELSE written
            /\ Exit(1, "writefail")

\* open(apiUrl) settles; either way process.exit(1)
BrowserSettled(ok) ==
    /\ pc = "opening"
    /\ openResult' = IF ok THEN "opened" ELSE "failed"
    /\ pc' = "exited"
    /\ exitCode' = 1
    /\ lastLine' = Null
    /\ lastFirst' = Null
    /\ lastChecked' = FALSE
    /\ UNCHANGED << input, parsed, downloadUrl, derived, files, requests, opened, outcome,
                    handles, prompts, external, session, target, fsTouched, written >>

\* the input stream ends while a question is pending: readline closes the
\* interface, the promise of question() has no way to reject and never
\* settles, nothing is left to run and the process ends with status 0
PromptEOF ==
    /\ pc \in {"menu", "custom"}
    /\ rlOpen' = rlOpen - 1
    /\ Exit(0, "eof")
    /\ lastLine' = Null
    /\ lastFirst' = Null
    /\ lastChecked' = FALSE
    /\ UNCHANGED << input, parsed, downloadUrl, derived, files, requests, browser, depth,
                    rlCreated, prompts, external, session, target, fsTouched, written >>

\* another process creates or deletes a name in the working directory while
\* the program waits at a prompt (nothing locks the directory; a change made
\* before the first existence check is a different initial directory)
ExternalChange(name) ==
    /\ pc \in {"menu", "custom"}
    /\ external < MaxExternal
    /\ external' = external + 1
    /\ files' = IF name \in files THEN files \ {name} ELSE files \cup {name}
    /\ UNCHANGED << pc, input, parsed, downloadUrl, derived, requests, browser, ending,
                    handles, prompts, session, target, lastLine, lastFirst, lastChecked,
                    fsTouched, written >>

Next ==
    \/ Action
    \/ \E reply \in MetaReplies : MetadataSettled(reply)
    \/ \E line \in Lines : MenuAnswer(line)
    \/ \E line \in Lines : CustomAnswer(line)
    \/ \E result \in {"reject", "stream"} : DownloadResponse(result)
    \/ \E result \in {"finish", "error"}, created \in BOOLEAN : WriteSettled(result, created)
    \/ \E ok \in BOOLEAN : BrowserSettled(ok)
    \/ PromptEOF
    \/ \E name \in ExternalNames : ExternalChange(name)

Spec == Init /\ [][Next]_vars

TypeOK ==
    /\ pc \in {"start", "fetching", "menu", "custom", "downloading", "writing", "opening",
               "exited"}
    /\ exitCode \in {-1, 0, 1}
    /\ rlOpen \in 0..1
    /\ rlCreated \in 0..MaxPrompts
    /\ depth \in 0..MaxPrompts
    /\ prompts \in 0..MaxPrompts

(***************************************************************************)
(* Properties.                                                             *)
(***************************************************************************)
Allowed == {SUPPORTED_DOMAINS[i] : i \in 1..Len(SUPPORTED_DOMAINS)}

HostAllowed(url) == LET u == ParseURL(url) IN u.ok /\ u.hostname \in Allowed

\* the requests issued by the step being taken
Issued(kind) ==
    {i \in (1..Len(requests')) \ (1..Len(requests)) : requests'[i].kind = kind}

RequestsOf(kind) == {i \in 1..Len(requests) : requests[i].kind = kind}

\* the input has the form of a URL (it is not a bare identifier)
InputIsUrl(in) == Includes(in, "://") \/ Includes(in, "/")

\* the three rejections of the Resolver: unparsable, foreign host, empty path
ResolverRejects(in) ==
    LET u == ParseURL(in) IN
    /\ InputIsUrl(in)
    /\ \/ ~u.ok
       \/ u.hostname \notin Allowed
       \/ u.pathname \in {"", "/"}

Failures == {"invalid", "metafail", "empty", "dlreqfail", "writefail"}

\* C1: the filename handed to downloadFile was absent from the working
\* directory when its existence check was made, or it is the original name
\* returned by Replace; while no other process changes the directory, a name
\* that exists when it is handed over comes from Replace only.
C1_HandedNameAbsentOrReplace ==
    /\ filename # Null => (resolved.absent \/ resolved.via = "replace")
    /\ (pc \in {"downloading", "writing"} /\ external = 0 /\ filename \in files)
           => resolved.via = "replace"

\* the numbered name was free when the menu was built, another process
\* created it since, and the user chose it
C1_Witness ==
    /\ pc = "downloading"
    /\ resolved.via = "auto"
    /\ resolved.absent
    /\ filename \in files

\* C2: the browser is opened only after a failed metadata fetch; a failed
\* download request, a failed file write and a metadata response without a
\* download URL end with exit code 1 and the browser never opened.
C2_FallbackOnlyOnMetadataFailure ==
    /\ opened # <<>> => outcome = "metafail"
    /\ (pc = "exited" /\ outcome \in {"dlreqfail", "writefail", "empty"})
           => (exitCode = 1 /\ opened = <<>>)

\* C3 as stated: every HTTP request, metadata and download alike, goes to a
\* host of the allow-list.
C3_EveryRequestAllowListed ==
    \A i \in 1..Len(requests) : HostAllowed(requests[i].url)

\* C3 as amended: every metadata GET goes to a host of the allow-list, an
\* input URL with a host outside it is rejected with no request issued, and
\* the download GET goes to the downloadUrl of the metadata response as it is.
C3_MetadataRequestAllowListed ==
    [][ /\ \A i \in Issued("metadata") : HostAllowed(requests'[i].url)
        /\ \A i \in Issued("download") : requests'[i].url = downloadUrl'
        /\ (pc = "start" /\ InputIsUrl(input) /\ ~HostAllowed(input))
               => (requests' = <<>> /\ pc' = "exited") ]_vars

\* a file was downloaded from a host that is not in the allow-list
C3_Witness ==
    /\ outcome = "done"
    /\ RequestsOf("metadata") = {1}
    /\ RequestsOf("download") = {2}
    /\ ParseURL(requests[2].url).hostname = "cdn.example"

\* C4: an input the Resolver rejects (unparsable URL, host outside the
\* allow-list whatever the path, empty path) ends the process with exit code 1
\* with no HTTP request, no browser, no prompt and no filesystem access.
C4_RejectedInputHasNoEffect ==
    [][ /\ (pc = "start" /\ ResolverRejects(input)) => outcome' = "invalid"
        /\ outcome' = "invalid" =>
              /\ pc' = "exited"
              /\ exitCode' = 1
              /\ requests' = <<>>
              /\ opened' = <<>>
              /\ openResult' = "none"
              /\ ~fsTouched'
              /\ files' = files
              /\ written' = {}
              /\ rlOpen' = 0
              /\ ~menuShown'
              /\ prompts' = 0 ]_vars

\* a URL with a valid path on a foreign host was rejected
C4_Witness ==
    /\ pc = "exited"
    /\ outcome = "invalid"
    /\ input = "https://evil.example/abc123"

\* C5: the exit code is 0 exactly when the run ended in a completed download
\* or an explicit Cancel, and 1 after every failure.
C5_ExitZeroIffDoneOrCancel ==
    pc = "exited" =>
        /\ exitCode = 0 <=> outcome \in {"done", "cancel"}
        /\ outcome \in Failures => exitCode = 1

\* C6: the download GET is the second request, issued after a metadata GET
\* that returned a usable downloadUrl and, when the derived name existed,
\* after the conflict menu returned a filename; after Cancel there is no
\* download GET and nothing is written; the menu is shown only when the
\* derived name existed.
C6_PipelineOrder ==
    /\ RequestsOf("download") # {} =>
          /\ Len(requests) = 2
          /\ requests[1].kind = "metadata"
          /\ requests[2].kind = "download"
          /\ downloadUrl # ""
          /\ requests[2].url = downloadUrl
          /\ pc \notin {"start", "fetching", "menu", "custom"}
          /\ rlOpen = 0
          /\ derived.existed => resolved.via \in {"replace", "auto", "custom"}
          /\ ~derived.existed => resolved.via = "derived"
    /\ resolved.via = "cancel" =>
          /\ RequestsOf("download") = {}
          /\ written = {}
          /\ pc = "exited"
    /\ written # {} => RequestsOf("download") # {}
    /\ menuShown => derived.existed
    /\ pc \in {"menu", "custom"} => menuShown

\* the menu was shown, the user cancelled, nothing was requested or written
C6_Witness ==
    /\ pc = "exited"
    /\ resolved.via = "cancel"
    /\ menuShown
    /\ Len(requests) = 1

NameParts ==
    { <<"App", ".tsx">>, <<"b", ".txt">>, <<"new", ".txt">>, <<"App (2)", ".tsx">>,
      <<"archive.tar", ".gz">>, <<"dropcode-abc123", "">> }

\* result is "name (k).ext" for the smallest k >= 2 whose candidate is not in dir
SmallestFree(name, ext, result, dir) ==
    \E k \in 2..(Cardinality(dir) + 2) :
        /\ result = name \o " (" \o ToString(k) \o ")" \o ext
        /\ result \notin dir
        /\ \A j \in 2..(k - 1) : (name \o " (" \o ToString(j) \o ")" \o ext) \in dir

\* C7: generateNumberedFilename returns "name (k).ext" for the smallest
\* k >= 2 such that it does not exist, for every name and every directory:
\* for the names of NameParts in every initial directory, and for the name of
\* every conflict session in the directory as it is when the session starts.
C7_SmallestFreeNumber ==
    [][ /\ pc = "start" =>
              \A p \in NameParts :
                  SmallestFree(p[1], p[2], generateNumberedFilename(p[1] \o p[2], files), files)
        /\ depth' = depth + 1 =>
              \E p \in NameParts :
                  /\ originalFilename' = p[1] \o p[2]
                  /\ SmallestFree(p[1], p[2], autoNumberedName', files) ]_vars

\* App.tsx, App (2).tsx and App (3).tsx exist: the menu offers App (4).tsx
C7_Witness ==
    /\ pc = "menu"
    /\ originalFilename = "App.tsx"
    /\ autoNumberedName = "App (4).tsx"
    /\ {"App.tsx", "App (2).tsx", "App (3).tsx"} \subseteq files

\* C8: in the custom-name prompt, submitting an existing name equal to
\* firstAttemptName leads to a fresh menu whose originalFilename is that name
\* and whose numbered name is computed for that name in the directory as it
\* is now.
C8_DuplicateTwiceReentersMenu ==
    [][ ( /\ pc = "custom"
          /\ prompts' = prompts + 1
          /\ lastLine' # ""
          /\ lastLine' \in files
          /\ lastLine' = firstAttemptName )
        => ( /\ pc' = "menu"
             /\ originalFilename' = lastLine'
             /\ autoNumberedName' = generateNumberedFilename(lastLine', files)
             /\ autoNumberedName' \notin files
             /\ firstAttemptName' = Null
             /\ rlOpen' = 1 ) ]_vars

\* the menu was re-entered for the original name after another process
\* created the numbered name the first menu offered
C8_Witness ==
    /\ pc = "menu"
    /\ depth = 2
    /\ originalFilename = derived.name
    /\ external = 1
    /\ originalFilename = "App.tsx"
    /\ files = {"App.tsx", "App (2).tsx"}
    /\ autoNumberedName = "App (3).tsx"

\* C9: answering 1 in the menu ends the conflict resolution with the
\* originalFilename of the current session, with no existence check and no
\* prompt in between, also in a session entered by re-entry.
C9_ReplaceReturnsOriginal ==
    [][ (pc = "menu" /\ prompts' = prompts + 1 /\ lastLine' = "1")
        => ( /\ filename' = originalFilename
             /\ resolved'.via = "replace"
             /\ pc' = "downloading"
             /\ ~lastChecked'
             /\ rlOpen' = 0
             /\ files' = files
             /\ requests' = Append(requests, [kind |-> "download", url |-> downloadUrl]) ) ]_vars

\* Replace was chosen in a session re-entered for the custom name b.txt
C9_Witness ==
    /\ pc = "downloading"
    /\ resolved.via = "replace"
    /\ derived.name = "App.tsx"
    /\ originalFilename = "b.txt"
    /\ filename = "b.txt"

\* C10: at most one metadata GET and at most one download GET are issued,
\* and after a failed metadata fetch the only follow-up is one call of
\* open(): no further GET.
C10_NoRetry ==
    /\ Cardinality(RequestsOf("metadata")) <= 1
    /\ Cardinality(RequestsOf("download")) <= 1
    /\ Len(opened) <= 1
    /\ outcome = "metafail" =>
          /\ Len(requests) = 1
          /\ Len(opened) = 1
          /\ pc \in {"opening", "exited"}

\* the metadata fetch failed, the browser could not be opened, the run ended
C10_Witness ==
    /\ pc = "exited"
    /\ outcome = "metafail"
    /\ openResult = "failed"
    /\ Len(requests) = 1

C12_ReadlineScoped ==
    /\ rlOpen = IF pc \in {"menu", "custom"} THEN 1 ELSE 0
    /\ ~derived.existed => rlCreated = 0
    /\ rlCreated > 0 => menuShown
    /\ pc \in {"menu", "custom"} => rlCreated = depth

\* the menu was re-entered once (two interfaces were created), the user
\* cancelled, no interface is open
C12_Witness ==
    /\ pc = "exited"
    /\ outcome = "cancel"
    /\ rlCreated = 2
    /\ rlOpen = 0

\* C13: for an input containing neither "://" nor "/", the resolver succeeds
\* with snippetId equal to the input unchanged and baseUrl equal to "https://"
\* followed by the first domain of the allow-list; resolving touches neither
\* the file system nor the browser.
C13_BareIdentifierDefaultDomain ==
    [][(pc = "start" /\ ~InputIsUrl(input)) =>
          /\ parsed' = [ok |-> TRUE, snippetId |-> input,
                        baseUrl |-> "https://" \o SUPPORTED_DOMAINS[1]]
          /\ parsed'.baseUrl = "https://dropcode.tonary.app"
          /\ UNCHANGED <<input, files, written, fsTouched, opened, openResult>>]_vars

\* a bare identifier that is not a plain word has been resolved
C13_Witness ==
    /\ pc = "fetching"
    /\ input = "x@evil.example"
    /\ parsed = [ok |-> TRUE, snippetId |-> "x@evil.example",
                 baseUrl |-> "https://dropcode.tonary.app"]

\* C14: at the custom-filename prompt an answer that is empty after trimming
\* keeps the prompt, with still no rejected name recorded, when no name was
\* rejected before in this visit; when a name was rejected it goes back to the
\* menu with the same original and numbered names.  Either way no filename is
\* returned: nothing is chosen, requested or ended.
C14_EmptyCustomName ==
    [][(pc = "custom" /\ prompts' = prompts + 1 /\ lastLine' = "") =>
          /\ firstAttemptName = Null => (pc' = "custom" /\ firstAttemptName' = Null)
          /\ firstAttemptName # Null =>
                (pc' = "menu" /\ UNCHANGED <<originalFilename, autoNumberedName>>)
          /\ UNCHANGED <<filename, resolved, requests, exitCode, outcome, depth, rlOpen>>]_vars

\* an empty answer after a rejected name has led back to the menu
C14_Witness ==
    /\ pc = "menu"
    /\ lastLine = ""
    /\ lastFirst = "b.txt"
    /\ originalFilename = "App.tsx"
    /\ filename = Null

\* C15: at the custom-filename prompt an existing name that differs from the
\* remembered rejected name (or is the first rejected one) becomes the
\* remembered name and the prompt stays; the menu is re-entered for a new
\* conflict exactly when the submitted name exists and equals the remembered
\* name, and the remembered name is always the answer given immediately
\* before at this prompt.
C15_ReentryOnlyOnImmediateRepeat ==
    /\ []((pc = "custom" /\ firstAttemptName # Null) => lastLine = firstAttemptName)
    /\ [][(pc = "custom" /\ prompts' = prompts + 1) =>
             /\ (lastLine' \in files /\ lastLine' # firstAttemptName) =>
                   /\ pc' = "custom"
                   /\ firstAttemptName' = lastLine'
                   /\ UNCHANGED <<originalFilename, autoNumberedName, filename>>
             /\ (depth' = depth + 1) <=> (lastLine' \in files /\ lastLine' = firstAttemptName)
             /\ (depth' = depth + 1) => (pc' = "menu" /\ originalFilename' = lastLine')]_vars

\* after "b.txt" was rejected, the existing "App.tsx" was submitted: it replaced
\* the remembered name and no new conflict menu was entered
C15_Witness ==
    /\ pc = "custom"
    /\ lastFirst = "b.txt"
    /\ lastLine = "App.tsx"
    /\ firstAttemptName = "App.tsx"
    /\ depth = 1
    /\ prompts = 4

\* C16: at the menu an answer that, after trimming, is none of 1, 2, 3, 4
\* keeps the menu with the same original and numbered names: no filename is
\* returned, nothing is cancelled, requested or ended, and the custom-filename
\* prompt is not entered.
C16_OtherMenuAnswerReprompts ==
    [][(pc = "menu" /\ prompts' = prompts + 1 /\ lastLine' \notin {"1", "2", "3", "4"}) =>
          /\ pc' = "menu"
          /\ UNCHANGED <<originalFilename, autoNumberedName, firstAttemptName>>
          /\ UNCHANGED <<filename, resolved, requests, exitCode, outcome>>
          /\ UNCHANGED <<rlOpen, rlCreated, depth, files>>]_vars

\* two answers outside 1..4, the second one empty, have both left the menu in place
C16_Witness ==
    /\ pc = "menu"
    /\ lastLine = ""
    /\ lastFirst = Null
    /\ prompts = 2
    /\ depth = 1
    /\ originalFilename = "App.tsx"
    /\ external = 0

\* C17: the resolver never yields an empty snippet id: every input is either
\* rejected (exit 1, no request) or resolved to a non-empty snippetId, and no
\* metadata GET is issued for an empty id.
C17_NoEmptySnippetId ==
    /\ parsed.ok => parsed.snippetId # ""
    /\ \A i \in 1..Len(requests) :
          requests[i].kind = "metadata" =>
              requests[i].url # ApiUrl("https://" \o SUPPORTED_DOMAINS[1], "")

\* C18 as stated: re-entry is a transition of one activation, so the number of
\* nested activations of handleFileNameConflict never exceeds one.
C18_DepthBoundedByConstant == depth <= 1

\* C18 amended: re-entry for a duplicate custom name is a nested activation of
\* handleFileNameConflict with that name as originalFilename; every re-entry
\* adds one activation that stays pending while the program is at a prompt,
\* so the depth is one more than the number of re-entries, each of which takes
\* three answers, and only the number of answers bounds it.
C18_DepthGrowsWithReentry ==
    /\ [](pc \in {"menu", "custom"} => (depth >= 1 /\ 3 * (depth - 1) <= prompts))
    /\ [][(pc \in {"menu", "custom"} /\ pc' \in {"menu", "custom"}) =>
             /\ depth' \in {depth, depth + 1}
             /\ (pc = "custom" /\ prompts' = prompts + 1 /\ lastLine' \in files
                   /\ lastLine' = firstAttemptName) =>
                   (depth' = depth + 1 /\ pc' = "menu" /\ originalFilename' = lastLine')
             /\ depth' = depth + 1 => (pc = "custom" /\ originalFilename' = lastLine')]_vars

\* the duplicate gesture was made twice: three activations are nested
C18_Witness ==
    /\ pc = "menu"
    /\ depth = 3
    /\ prompts = 6
    /\ rlOpen = 1

\* C19: when reading an answer fails, at the menu or at the custom-filename
\* prompt (the input stream ending before a line is submitted included), the
\* failure reaches the caller and the process ends with exit code 1, with no
\* download GET issued and no file written.
C19_PromptFailureExitsOne ==
    outcome = "eof" =>
        /\ pc = "exited"
        /\ exitCode = 1
        /\ RequestsOf("download") = {}
        /\ written = {}
====
